---- MODULE Spec2Model ----
(***************************************************************************)
(* SIRA event-to-alert pipeline: the rule engine with its 60-minute        *)
(* deduplication (services/alert_engine.py), the alert REST operations     *)
(* (api/v1/alerts.py), event ingestion (api/v1/events.py), the real-time   *)
(* connection registry (services/websocket_manager.py) and the             *)
(* notification dispatcher (services/notification_service.py,              *)
(* services/email_service.py).                                             *)
(*                                                                         *)
(* Time is counted in minutes.  The rule engine (specification Engine),    *)
(* the alert lifecycle (Spec) and the connection registry (SpecWS) share   *)
(* no state in the code beyond the alert table, so each is explored on     *)
(* its own.  Wired has only the operations that something in the           *)
(* application invokes; Faulty adds rule evaluations in which one rule     *)
(* raises; Notify is the dispatcher over the registry.                     *)
(***************************************************************************)
EXTENDS Integers, Sequences, FiniteSets, TLC

VARIABLES
    now,            \* datetime.now(timezone.utc), in minutes
    events,         \* table events: Seq of Event rows, id = index
    alerts,         \* table alerts: Seq of Alert rows, id = index
    sweepPc,        \* position of the SLA sweep: "idle" | "loaded"
    sweepNow,       \* check_sla_breaches: local `now`
    sweepSel,       \* check_sla_breaches: local `open_alerts` (ids)
    breachReturns,  \* per alert: how often check_sla_breaches returned it
    lastEval,       \* per event: time of its latest process_event, or Never
    lastOp          \* the operation that produced this state and its result

alertVars == <<now, events, alerts, sweepPc, sweepNow, sweepSel,
               breachReturns, lastEval, lastOp>>

VARIABLES
    sock,               \* per WebSocket: "new" | "open" | "closed" | "ended"
    active_connections, \* ConnectionManager.active_connections
    rooms,              \* ConnectionManager.rooms
    fanPc,              \* position of the fan-out coroutine
    fanKind,            \* "personal" | "room" | "all": the call it runs
    fanRoom,            \* broadcast_to_room: room_id
    roomIt,             \* the iterator of the outer loop
    fanUser,            \* send_personal_message: user_id
    userIt,             \* the iterator over active_connections[user_id]
    disconnected,       \* send_personal_message: local list `disconnected`
    delivered,          \* per WebSocket: send_json calls that succeeded
    fanMembers,         \* the users the call addresses, when it starts
    fanLive,            \* their open registered connections, when it starts
    fanFailed,          \* the connections whose send_json raised
    fanOutcome,         \* "none" | "running" | "returned" | "raised"
    wsCall              \* the latest disconnect call and what it met

wsVars == <<sock, active_connections, rooms, fanPc, fanKind, fanRoom, roomIt,
            fanUser, userIt, disconnected, delivered, fanMembers, fanLive,
            fanFailed, fanOutcome, wsCall>>

VARIABLES
    preferences,    \* table notification_preferences: per user a row or none
    notifications,  \* table notifications: Seq of Notification rows
    warnings,       \* "Email service not configured" lines in the process log
    smtp,           \* the SMTP settings: "configured" | "unconfigured"
    job,            \* the NotificationService call in progress, or the last
    readCall        \* the mark-read call of the latest step and its result

notifyVars == <<preferences, notifications, warnings, smtp, job, readCall>>

vars == <<alertVars, wsVars, notifyVars>>

---------------------------------------------------------------------------
(* Bounds of the exploration: the clock's step and end, and the sizes of   *)
(* the event and alert tables, for the rule engine (Engine) and for the    *)
(* alert lifecycle with the SLA sweep (Spec).                              *)
ClockStep == 15
MaxTime == 75
MaxEvents == 1
MaxAlerts == 3
MaxSweepTime == 45
MaxSweepEvents == 1
MaxSweepAlerts == 1
MaxCalls == 1

(* Python None / SQL NULL: of a number, of a string column, of a time. *)
NULL == 0
NoRule == "NULL"
Never == 0 - 1

UserIds == {1}
CaseIds == {1}

---------------------------------------------------------------------------
(* The registered rules, in registration order. *)
Rules ==
    <<"RULE_SEC_001", "RULE_SEV_001", "RULE_ZONE_001",
      "RULE_DELAY_001", "RULE_ANOM_001">>

RuleIds == {Rules[i] : i \in 1..Len(Rules)}

SlaMinutes(rule) ==
    CASE rule = "RULE_SEC_001" -> 30
      [] rule = "RULE_SEV_001" -> 15
      [] rule = "RULE_ZONE_001" -> 45
      [] rule = "RULE_DELAY_001" -> 120
      [] rule = "RULE_ANOM_001" -> 60

(* The movement every event of the model belongs to: active, its laycan    *)
(* window ending at minute 30.                                             *)
Movement == [status |-> "active", laycan_end |-> 30]

(* AlertRule.evaluate of the five rule classes.  An event carries what the *)
(* rules read: its type, its severity, whether its location contains a     *)
(* high-risk zone name and whether its description contains a keyword.     *)
Evaluate(rule, event, t) ==
    CASE rule = "RULE_SEC_001" -> event.event_type = "security"
      [] rule = "RULE_SEV_001" -> event.severity = "critical"
      [] rule = "RULE_ZONE_001" -> event.in_risk_zone
      [] rule = "RULE_DELAY_001" ->
            /\ event.event_type = "operational"
            /\ Movement.laycan_end < t
            /\ Movement.status = "active"
      [] rule = "RULE_ANOM_001" -> event.has_keyword

(* The dedup window of _create_alert: timedelta(hours=1). *)
DedupWindow == 60

(* The duplicate query with a window that excludes its boundary. *)
ExistingDuplicateOpenWindow(als, eid, rule, t) ==
    \E i \in 1..Len(als) :
        /\ als[i].event_id = eid
        /\ als[i].rule_id = rule
        /\ als[i].created_at > t - DedupWindow

(* _create_alert's duplicate query: a row with this event and rule whose    *)
(* created_at >= now - 1 hour.                                             *)
ExistingDuplicate(als, eid, rule, t) ==
    \E i \in 1..Len(als) :
        /\ als[i].event_id = eid
        /\ als[i].rule_id = rule
        /\ als[i].created_at >= t - DedupWindow

NewAlert(eid, rule, timer, t) ==
    [event_id |-> eid, rule_id |-> rule, created_at |-> t,
     status |-> "open", sla_timer |-> timer, sla_breached |-> FALSE,
     assigned_to |-> NULL, case_id |-> NULL,
     acknowledged_at |-> NULL, acknowledged_by |-> NULL,
     resolved_by |-> NULL]

(* _create_alert: the alert table after the call. *)
CreateAlertRow(als, eid, rule, t) ==
    IF ExistingDuplicate(als, eid, rule, t)
    THEN als
    ELSE Append(als, NewAlert(eid, rule, SlaMinutes(rule), t))

(* process_event: every rule in order, each match handed to _create_alert. *)
RECURSIVE ProcessRules(_, _, _, _, _)
ProcessRules(i, als, eid, event, t) ==
    IF i > Len(Rules) THEN als
    ELSE ProcessRules(i + 1,
                      IF Evaluate(Rules[i], event, t)
                      THEN CreateAlertRow(als, eid, Rules[i], t)
                      ELSE als,
                      eid, event, t)

ProcessEvent(als, eid, event, t) == ProcessRules(1, als, eid, event, t)

(* The ids of the rows a call appended to the alert table. *)
Appended(before, after) == (Len(before) + 1)..Len(after)

(* The latest step: a process_event call with the event it evaluated and   *)
(* the alerts it returned, check_sla_breaches with the list it returned, a *)
(* REST operation with the alert it wrote; NoCall otherwise.               *)
Op(name, eid, ids) == [op |-> name, event |-> eid, alerts |-> ids]
NoCall == Op("none", NULL, {})

(* A rule that throws: the rule and the place where it raises, in          *)
(* evaluate, in generate_description, or when its alert is committed.      *)
Stages == {"evaluate", "describe", "persist"}
Faults == [rule : RuleIds, stage : Stages]
Throws(fault, rule, stage) == fault.rule = rule /\ fault.stage = stage

(* _create_alert with its try/except: an exception after the duplicate     *)
(* query is logged, the session rolled back and None returned.             *)
CreateAlertRowOrNone(als, eid, rule, t, fault) ==
    IF ExistingDuplicate(als, eid, rule, t) THEN als
    ELSE IF Throws(fault, rule, "describe") \/ Throws(fault, rule, "persist")
         THEN als
         ELSE Append(als, NewAlert(eid, rule, SlaMinutes(rule), t))

(* The loop body without the try/except of process_event: an exception of  *)
(* evaluate leaves the loop and the call.                                  *)
RuleStepUnguarded(res, eid, rule, event, t, fault) ==
    IF Throws(fault, rule, "evaluate")
    THEN [res EXCEPT !.raised = TRUE]
    ELSE IF Evaluate(rule, event, t)
         THEN [res EXCEPT !.alerts =
                              CreateAlertRowOrNone(@, eid, rule, t, fault)]
         ELSE res

(* The loop body of process_event: an exception of the rule is caught and  *)
(* logged, and the loop goes on.                                           *)
RuleStep(res, eid, rule, event, t, fault) ==
    IF Throws(fault, rule, "evaluate")
    THEN res
    ELSE IF Evaluate(rule, event, t)
         THEN [res EXCEPT !.alerts =
                              CreateAlertRowOrNone(@, eid, rule, t, fault)]
         ELSE res

(* process_event with a rule that throws: the alert table after the call   *)
(* and whether an exception left the call.                                 *)
RECURSIVE ProcessRulesWithFault(_, _, _, _, _, _)
ProcessRulesWithFault(i, res, eid, event, t, fault) ==
    IF i > Len(Rules) \/ res.raised THEN res
    ELSE ProcessRulesWithFault(i + 1,
                               RuleStep(res, eid, Rules[i], event, t, fault),
                               eid, event, t, fault)

ProcessEventWithFault(als, eid, event, t, fault) ==
    ProcessRulesWithFault(1, [alerts |-> als, raised |-> FALSE],
                          eid, event, t, fault)

---------------------------------------------------------------------------
(* Event ingestion. *)

(* The EventCreate payloads explored: the security/critical/keyword event  *)
(* of the three-rule scenario, a routine operational event, a critical     *)
(* operational event and a planned event located in a high-risk zone.      *)
EventInputs ==
    { [event_type |-> "security", severity |-> "critical",
       in_risk_zone |-> FALSE, has_keyword |-> TRUE],
      [event_type |-> "operational", severity |-> "info",
       in_risk_zone |-> FALSE, has_keyword |-> FALSE],
      [event_type |-> "operational", severity |-> "critical",
       in_risk_zone |-> FALSE, has_keyword |-> FALSE],
      [event_type |-> "planned", severity |-> "info",
       in_risk_zone |-> TRUE, has_keyword |-> FALSE] }

Urgent(event) ==
    event.event_type = "security" \/ event.severity = "critical"

(* A process_event call made for an event, the alerts it returned and      *)
(* those of them its caller passed to notify_alert.                        *)
EventOp(eid, ids, notified) ==
    [op |-> "process_event", event |-> eid, alerts |-> ids,
     notified |-> notified]

(* POST /events: the event is stored; an urgent one is evaluated at once,  *)
(* any other is only stored.  The alerts created are logged, not notified. *)
CreateEvent(input) ==
    LET eid == Len(events) + 1
        after == IF Urgent(input)
                 THEN ProcessEvent(alerts, eid, input, now)
                 ELSE alerts
    IN  /\ events' = Append(events, input)
        /\ alerts' = after
        /\ breachReturns' =
               breachReturns \o [i \in 1..(Len(after) - Len(alerts)) |-> 0]
        /\ lastEval' = Append(lastEval, IF Urgent(input) THEN now ELSE Never)
        /\ lastOp' = IF Urgent(input)
                     THEN EventOp(eid, Appended(alerts, after), {})
                     ELSE NoCall
        /\ UNCHANGED <<now, sweepPc, sweepNow, sweepSel>>

(* process_event_alerts(event_id): the background task's evaluation of a   *)
(* stored event, with notify_alert for each alert created.                 *)
ProcessEventAlerts(eid) ==
    LET after == ProcessEvent(alerts, eid, events[eid], now)
    IN  /\ eid \in 1..Len(events)
        /\ alerts' = after
        /\ breachReturns' =
               breachReturns \o [i \in 1..(Len(after) - Len(alerts)) |-> 0]
        /\ lastEval' = [lastEval EXCEPT ![eid] = now]
        /\ lastOp' = EventOp(eid, Appended(alerts, after),
                             Appended(alerts, after))
        /\ UNCHANGED <<now, events, sweepPc, sweepNow, sweepSel>>

(* process_event(event) while one rule throws. *)
EvaluateWithFault(eid, fault) ==
    LET res == ProcessEventWithFault(alerts, eid, events[eid], now, fault)
        after == res.alerts
    IN  /\ eid \in 1..Len(events)
        /\ alerts' = after
        /\ breachReturns' =
               breachReturns \o [i \in 1..(Len(after) - Len(alerts)) |-> 0]
        /\ lastEval' = [lastEval EXCEPT ![eid] = now]
        /\ lastOp' = [op |-> "process_event_fault", event |-> eid,
                      alerts |-> IF res.raised THEN {}
                                 ELSE Appended(alerts, after),
                      fault |-> fault, raised |-> res.raised]
        /\ UNCHANGED <<now, events, sweepPc, sweepNow, sweepSel>>

---------------------------------------------------------------------------
(* The alert REST operations. *)

(* AlertCreate payloads: event_id, rule_id and the positive sla_timer are  *)
(* optional free fields.  Explored: the bare alert of the API tests, and   *)
(* an alert naming a stored event and a rule of the engine.                *)
ManualInputs ==
    { [event_id |-> NULL, rule_id |-> NoRule, sla_timer |-> NULL] }
    \cup { [event_id |-> e, rule_id |-> "RULE_SEC_001",
            sla_timer |-> 15] : e \in 1..Len(events) }

(* POST /alerts: the row is built from the payload, with no duplicate      *)
(* query.                                                                  *)
CreateAlert(data) ==
    /\ alerts' = Append(alerts, NewAlert(data.event_id, data.rule_id,
                                         data.sla_timer, now))
    /\ breachReturns' = Append(breachReturns, 0)
    /\ lastOp' = NoCall
    /\ UNCHANGED <<now, events, lastEval, sweepPc, sweepNow, sweepSel>>

Statuses == {"open", "acknowledged", "assigned", "investigating", "closed"}

(* AlertUpdate payloads after model_dump(exclude_unset=True): the fields   *)
(* the client set, each an allowed value of its type.                      *)
UpdatePayloads ==
    {[status |-> s] : s \in Statuses}
    \cup {[assigned_to |-> u] : u \in UserIds \cup {NULL}}
    \cup {[case_id |-> c] : c \in CaseIds \cup {NULL}}
    \cup {[status |-> s, assigned_to |-> u] : s \in Statuses, u \in UserIds}

(* An update that also clears the breach flag of an alert it re-opens. *)
UpdatedClearingBreach(alert, data) ==
    [f \in DOMAIN alert |->
        IF f \in DOMAIN data THEN data[f]
        ELSE IF f = "sla_breached" /\ "status" \in DOMAIN data
                /\ data.status = "open"
             THEN FALSE
             ELSE alert[f]]

(* PUT /alerts/{id}: every field the payload sets is written as given.     *)
Updated(alert, data) ==
    [f \in DOMAIN alert |-> IF f \in DOMAIN data THEN data[f] ELSE alert[f]]

UpdateAlert(a, data) ==
    /\ a \in 1..Len(alerts)
    /\ alerts' = [alerts EXCEPT ![a] = Updated(@, data)]
    /\ lastOp' = Op("update_alert", NULL, {a})
    /\ UNCHANGED <<now, events, lastEval, breachReturns,
                   sweepPc, sweepNow, sweepSel>>

(* acknowledge_alert accepting every alert that is not closed. *)
AcknowledgeStatusUnlessClosed(als, a) ==
    IF a \notin 1..Len(als) THEN 404
    ELSE IF als[a].status = "closed" THEN 400
    ELSE 200

(* The HTTP status of POST /alerts/{id}/acknowledge: 404 for an unknown    *)
(* id, 400 unless the alert is open.                                       *)
AcknowledgeStatus(als, a) ==
    IF a \notin 1..Len(als) THEN 404
    ELSE IF als[a].status # "open" THEN 400
    ELSE 200

(* The row acknowledge_alert commits. *)
Acknowledged(alert, user, t) ==
    [alert EXCEPT !.status = "acknowledged",
                  !.acknowledged_at = t,
                  !.acknowledged_by = user]

(* POST /alerts/{id}/acknowledge with its response. *)
AcknowledgeAlert(a, user) ==
    LET code == AcknowledgeStatus(alerts, a)
    IN  /\ alerts' = IF code = 200
                     THEN [alerts EXCEPT ![a] = Acknowledged(@, user, now)]
                     ELSE alerts
        /\ lastOp' = [op |-> "acknowledge_alert", event |-> NULL,
                      alerts |-> IF code = 200 THEN {a} ELSE {},
                      id |-> a, user |-> user, code |-> code]
        /\ UNCHANGED <<now, events, lastEval, breachReturns,
                       sweepPc, sweepNow, sweepSel>>

(* POST /alerts/{id}/assign: no condition on the current status. *)
AssignAlert(a, user) ==
    /\ a \in 1..Len(alerts)
    /\ alerts' = [alerts EXCEPT ![a].status = "assigned",
                                ![a].assigned_to = user]
    /\ lastOp' = Op("assign_alert", NULL, {a})
    /\ UNCHANGED <<now, events, lastEval, breachReturns,
                   sweepPc, sweepNow, sweepSel>>

(* POST /alerts/{id}/resolve: no condition on the current status. *)
ResolveAlert(a, user) ==
    /\ a \in 1..Len(alerts)
    /\ alerts' = [alerts EXCEPT ![a].status = "closed",
                                ![a].resolved_by = user]
    /\ lastOp' = Op("resolve_alert", NULL, {a})
    /\ UNCHANGED <<now, events, lastEval, breachReturns,
                   sweepPc, sweepNow, sweepSel>>

(* POST /alerts/{id}/link-case. *)
LinkAlertToCase(a, c) ==
    /\ a \in 1..Len(alerts)
    /\ alerts' = [alerts EXCEPT ![a].case_id = c]
    /\ lastOp' = Op("link_alert_to_case", NULL, {a})
    /\ UNCHANGED <<now, events, lastEval, breachReturns,
                   sweepPc, sweepNow, sweepSel>>

---------------------------------------------------------------------------
(* The SLA sweep, check_sla_breaches.  It reads the candidate rows with    *)
(* one query and writes the flags of the rows it loaded when it commits;   *)
(* requests served by other sessions commit in between.                    *)

(* The sweep's query without its sla_breached filter. *)
SweepQueryAnyFlag(als) ==
    { a \in 1..Len(als) :
        /\ als[a].status \in {"open", "acknowledged"}
        /\ als[a].sla_timer # NULL }

SweepQuery(als) ==
    { a \in 1..Len(als) :
        /\ als[a].status \in {"open", "acknowledged"}
        /\ als[a].sla_breached = FALSE
        /\ als[a].sla_timer # NULL }

SweepSelect ==
    /\ sweepPc = "idle"
    /\ sweepPc' = "loaded"
    /\ sweepNow' = now
    /\ sweepSel' = SweepQuery(alerts)
    /\ lastOp' = NoCall
    /\ UNCHANGED <<now, events, alerts, lastEval, breachReturns>>

(* The rows of the loaded list whose deadline has passed. *)
Breached(als, sel, t) ==
    { a \in sel : t > als[a].created_at + als[a].sla_timer }

(* The loop and the commit: UPDATE alerts SET sla_breached = true for each *)
(* breached row, whatever its status is by now.                            *)
SweepWrite ==
    LET hit == Breached(alerts, sweepSel, sweepNow)
    IN  /\ sweepPc = "loaded"
        /\ sweepPc' = "idle"
        /\ alerts' = [a \in 1..Len(alerts) |->
                        IF a \in hit
                        THEN [alerts[a] EXCEPT !.sla_breached = TRUE]
                        ELSE alerts[a]]
        /\ breachReturns' = [a \in 1..Len(alerts) |->
                        IF a \in hit THEN breachReturns[a] + 1
                        ELSE breachReturns[a]]
        /\ sweepSel' = {}
        /\ sweepNow' = NULL
        /\ lastOp' = Op("check_sla_breaches", NULL, hit)
        /\ UNCHANGED <<now, events, lastEval>>

(* Time passes. *)
Tick ==
    /\ now' = now + ClockStep
    /\ lastOp' = NoCall
    /\ UNCHANGED <<events, alerts, lastEval, breachReturns,
                   sweepPc, sweepNow, sweepSel>>

---------------------------------------------------------------------------
(* The connection registry (services/websocket_manager.py) and the         *)
(* notification endpoint that drives it (api/v1/websocket.py).             *)
(*                                                                         *)
(* All coroutines run on one event loop.  connect, disconnect, join_room   *)
(* and leave_room change the maps inside `async with self._lock` with no   *)
(* await in the critical section, so each is one step.  The fan-out        *)
(* methods take no lock and iterate the live sets; their only suspension   *)
(* point is `await websocket.send_json`, where any other coroutine may     *)
(* run.  One fan-out call is followed step by step; of the other           *)
(* coroutines the registry calls are modelled.  A set iterator raises      *)
(* RuntimeError at its next step when the size of its set differs from     *)
(* the size at the start of the loop.                                      *)

Sockets == {"w1", "w2", "w3"}
WsUsers == {1, 2}
Rooms == {"all_users", "supervisors"}
NoRoom == "none"

(* The user whose token opened the connection. *)
Owner(ws) == IF ws = "w3" THEN 2 ELSE 1

(* User 1 is a supervisor, user 2 an operator. *)
Role(u) == IF u = 1 THEN "supervisor" ELSE "operator"

DefaultRooms(u) ==
    {"all_users"} \cup
    (IF Role(u) \in {"supervisor", "admin"} THEN {"supervisors"} ELSE {})

Registered(act, ws, u) == u \in DOMAIN act /\ ws \in act[u]

(* connect, after accept(): the maps' entry is created when missing. *)
Connected(act, ws, u) ==
    IF u \in DOMAIN act
    THEN [act EXCEPT ![u] = @ \cup {ws}]
    ELSE [v \in DOMAIN act \cup {u} |-> IF v = u THEN {ws} ELSE act[v]]

(* A disconnect that drops the user's entry whether or not other           *)
(* connections remain in it.                                               *)
DisconnectedDroppingUser(act, ws, u) ==
    [v \in DOMAIN act \ {u} |-> act[v]]

(* disconnect: discard from the user's set, delete the set when empty. *)
Disconnected(act, ws, u) ==
    IF u \in DOMAIN act
    THEN IF act[u] \ {ws} = {}
         THEN [v \in DOMAIN act \ {u} |-> act[v]]
         ELSE [act EXCEPT ![u] = @ \ {ws}]
    ELSE act

(* join_room *)
Joined(rms, u, r) ==
    IF r \in DOMAIN rms
    THEN [rms EXCEPT ![r] = @ \cup {u}]
    ELSE [q \in DOMAIN rms \cup {r} |-> IF q = r THEN {u} ELSE rms[q]]

RECURSIVE JoinedAll(_, _, _)
JoinedAll(rms, u, rs) ==
    IF rs = {} THEN rms
    ELSE LET r == CHOOSE q \in rs : TRUE
         IN  JoinedAll(Joined(rms, u, r), u, rs \ {r})

(* leave_room *)
Left(rms, u, r) ==
    IF r \in DOMAIN rms
    THEN IF rms[r] \ {u} = {}
         THEN [q \in DOMAIN rms \ {r} |-> rms[q]]
         ELSE [rms EXCEPT ![r] = @ \ {u}]
    ELSE rms

(* A loop over a set: the set object it was created on is still the one    *)
(* in the map (live), its elements at creation, the elements yielded.      *)
NoIter == [live |-> FALSE, start |-> {}, seen |-> {}]
Iter(s) == [live |-> TRUE, start |-> s, seen |-> {}]

(* The deleted set object was emptied before it was deleted. *)
Current(it, s) == IF it.live THEN s ELSE {}

(* "RuntimeError: Set changed size during iteration" *)
IterRaises(it, cur) == Cardinality(cur) # Cardinality(it.start)

(* The loop can end once every element that was there from the start has   *)
(* been yielded; an element added since is yielded or not.                 *)
IterCanStop(it, cur) == (cur \cap it.start) \subseteq it.seen

NoWsCall ==
    [op |-> "none", ws |-> "none", user |-> NULL, registered |-> FALSE]
DisconnectCall(ws, u) ==
    [op |-> "disconnect", ws |-> ws, user |-> u,
     registered |-> Registered(active_connections, ws, u)]

(* The fan-out coroutine is suspended in send_json, or none is running. *)
OffCpu == fanPc \in {"idle", "sending"}

fanLocals == <<fanPc, fanKind, fanRoom, fanUser, disconnected>>
fanGhost == <<delivered, fanMembers, fanLive, fanFailed, fanOutcome>>

(* What a change of the maps by any coroutine does to the loops in         *)
(* progress: a loop whose set object was deleted from its map is left on   *)
(* the detached, empty object.                                             *)
Detach(act, rms) ==
    /\ userIt' = IF userIt.live /\ fanUser \notin DOMAIN act
                 THEN [userIt EXCEPT !.live = FALSE] ELSE userIt
    /\ roomIt' = IF fanKind = "room" /\ roomIt.live
                    /\ fanRoom \notin DOMAIN rms
                 THEN [roomIt EXCEPT !.live = FALSE] ELSE roomIt

(* websocket_notifications up to the welcome message: connect and the      *)
(* default rooms of the user's role.                                       *)
Connect(ws) ==
    /\ OffCpu
    /\ sock[ws] = "new"
    /\ sock' = [sock EXCEPT ![ws] = "open"]
    /\ active_connections' = Connected(active_connections, ws, Owner(ws))
    /\ rooms' = JoinedAll(rooms, Owner(ws), DefaultRooms(Owner(ws)))
    /\ wsCall' = NoWsCall
    /\ UNCHANGED <<roomIt, userIt, fanLocals, fanGhost>>

(* The client goes away: from now on send_json on the socket raises. *)
ClientClose(ws) ==
    /\ OffCpu
    /\ sock[ws] = "open"
    /\ sock' = [sock EXCEPT ![ws] = "closed"]
    /\ wsCall' = NoWsCall
    /\ UNCHANGED <<active_connections, rooms, roomIt, userIt,
                   fanLocals, fanGhost>>

(* websocket_notifications: receive_text raises WebSocketDisconnect and    *)
(* the handler calls disconnect.                                           *)
HandlerDisconnect(ws) ==
    /\ OffCpu
    /\ sock[ws] = "closed"
    /\ sock' = [sock EXCEPT ![ws] = "ended"]
    /\ active_connections' = Disconnected(active_connections, ws, Owner(ws))
    /\ wsCall' = DisconnectCall(ws, Owner(ws))
    /\ Detach(active_connections', rooms)
    /\ UNCHANGED <<rooms, fanLocals, fanGhost>>

(* The credential a client presents in ?token=: a token the application   *)
(* issued to the user, a string that is no token of its, an expired token, *)
(* a token without "sub", one whose "sub" names no user, one whose user    *)
(* has is_active false.                                                    *)
TokenKinds == {"good", "malformed", "expired", "nosub", "unknown", "inactive"}

(* A lookup that returns the user row whether it is active or not. *)
GetUserFromTokenAnyRow(ws, token) ==
    IF token \in {"good", "inactive"} THEN Owner(ws) ELSE NULL

(* get_user_from_token: the user, or None when decode_token raises, the    *)
(* payload has no "sub", no row has the username, or the row is inactive.  *)
GetUserFromToken(ws, token) ==
    IF token \in {"malformed", "expired"} THEN NULL
    ELSE IF token = "nosub" THEN NULL
    ELSE IF token = "unknown" THEN NULL
    ELSE IF token = "inactive" THEN NULL
    ELSE Owner(ws)

HandshakeCall(op, ws, user, token, code) ==
    [op |-> op, ws |-> ws, user |-> user, registered |-> FALSE,
     token |-> token, code |-> code]

(* websocket_notifications up to the receive loop: close(code=4001) and    *)
(* return when the token gives no user, else connect and the default       *)
(* rooms.                                                                  *)
Handshake(ws, token) ==
    LET user == GetUserFromToken(ws, token)
    IN  /\ OffCpu
        /\ sock[ws] = "new"
        /\ IF user = NULL
           THEN /\ sock' = [sock EXCEPT ![ws] = "rejected"]
                /\ wsCall' = HandshakeCall("close", ws, NULL, token, 4001)
                /\ UNCHANGED <<active_connections, rooms>>
           ELSE /\ sock' = [sock EXCEPT ![ws] = "open"]
                /\ wsCall' = HandshakeCall("accept", ws, user, token, NULL)
                /\ active_connections' =
                      Connected(active_connections, ws, user)
                /\ rooms' = JoinedAll(rooms, user, DefaultRooms(user))
        /\ UNCHANGED <<roomIt, userIt, fanLocals, fanGhost>>

(* websocket_notifications: handling a received message raises something   *)
(* other than JSONDecodeError or WebSocketDisconnect (message.get on a     *)
(* JSON value that is no object): no handler of the loop catches it, the   *)
(* coroutine ends and the server closes the socket.                        *)
HandlerRaise(ws) ==
    /\ OffCpu
    /\ sock[ws] = "open"
    /\ sock' = [sock EXCEPT ![ws] = "ended"]
    /\ wsCall' = [op |-> "handler_raised", ws |-> ws, user |-> Owner(ws),
                  registered |-> Registered(active_connections, ws,
                                            Owner(ws))]
    /\ UNCHANGED <<active_connections, rooms, roomIt, userIt,
                   fanLocals, fanGhost>>

(* The handler of a connection of user u is in its receive loop. *)
Serving(u) == \E ws \in Sockets : Owner(ws) = u /\ sock[ws] = "open"

(* websocket_notifications: action "subscribe" *)
JoinRoom(u, r) ==
    /\ OffCpu
    /\ Serving(u)
    /\ rooms' = Joined(rooms, u, r)
    /\ wsCall' = NoWsCall
    /\ UNCHANGED <<sock, active_connections, roomIt, userIt,
                   fanLocals, fanGhost>>

(* websocket_notifications: action "unsubscribe" *)
LeaveRoom(u, r) ==
    /\ OffCpu
    /\ Serving(u)
    /\ rooms' = Left(rooms, u, r)
    /\ wsCall' = NoWsCall
    /\ Detach(active_connections, rooms')
    /\ UNCHANGED <<sock, active_connections, fanLocals, fanGhost>>

(* The fan-out call ends: it returns, or an exception leaves it. *)
Finish(outcome) ==
    /\ fanPc' = "idle"
    /\ fanOutcome' = outcome
    /\ fanUser' = NULL
    /\ roomIt' = NoIter
    /\ userIt' = NoIter
    /\ disconnected' = <<>>

(* A fan-out call starts: what it addresses at that moment. *)
Begin(kind, r, members) ==
    /\ fanPc = "idle"
    /\ fanKind' = kind
    /\ fanRoom' = r
    /\ delivered' = [ws \in Sockets |-> 0]
    /\ fanMembers' = members
    /\ fanLive' = {ws \in Sockets :
                      /\ Owner(ws) \in members
                      /\ Registered(active_connections, ws, Owner(ws))
                      /\ sock[ws] = "open"}
    /\ fanFailed' = {}
    /\ wsCall' = NoWsCall
    /\ UNCHANGED <<sock, active_connections, rooms>>

(* send_personal_message is called on its own. *)
StartPersonal(u) ==
    /\ Begin("personal", NoRoom, {u})
    /\ fanPc' = "userEnter"
    /\ fanUser' = u
    /\ fanOutcome' = "running"
    /\ UNCHANGED <<roomIt, userIt, disconnected>>

(* broadcast_to_room: return when the room is unknown, else loop over the  *)
(* room's set itself.                                                      *)
StartRoom(r) ==
    /\ Begin("room", r, IF r \in DOMAIN rooms THEN rooms[r] ELSE {})
    /\ IF r \notin DOMAIN rooms
       THEN /\ fanPc' = "idle"
            /\ fanOutcome' = "returned"
            /\ UNCHANGED <<roomIt, fanUser, userIt, disconnected>>
       ELSE /\ fanPc' = "roomNext"
            /\ fanOutcome' = "running"
            /\ roomIt' = Iter(rooms[r])
            /\ UNCHANGED <<fanUser, userIt, disconnected>>

(* broadcast_to_all: loop over a copy of the keys. *)
StartAll ==
    /\ Begin("all", NoRoom, DOMAIN active_connections)
    /\ fanPc' = "roomNext"
    /\ fanOutcome' = "running"
    /\ roomIt' = Iter(DOMAIN active_connections)
    /\ UNCHANGED <<fanUser, userIt, disconnected>>

(* The outer loop takes its next user, ends, or raises. *)
RoomNext ==
    /\ fanPc = "roomNext"
    /\ LET cur == IF fanKind = "room"
                  THEN Current(roomIt,
                               IF roomIt.live THEN rooms[fanRoom] ELSE {})
                  ELSE roomIt.start
       IN  IF IterRaises(roomIt, cur)
           THEN /\ Finish("raised")
                /\ UNCHANGED <<fanKind, fanRoom>>
           ELSE \/ \E u \in cur \ roomIt.seen :
                      /\ roomIt' = [roomIt EXCEPT !.seen = @ \cup {u}]
                      /\ fanUser' = u
                      /\ fanPc' = "userEnter"
                      /\ UNCHANGED <<fanKind, fanRoom, userIt, disconnected,
                                     fanOutcome>>
                \/ /\ IterCanStop(roomIt, cur)
                   /\ Finish("returned")
                   /\ UNCHANGED <<fanKind, fanRoom>>
    /\ wsCall' = NoWsCall
    /\ UNCHANGED <<sock, active_connections, rooms, delivered, fanMembers,
                   fanLive, fanFailed>>

(* send_personal_message returns to its caller. *)
Return ==
    IF fanKind = "personal"
    THEN /\ Finish("returned")
         /\ UNCHANGED <<fanKind, fanRoom>>
    ELSE /\ fanPc' = "roomNext"
         /\ userIt' = NoIter
         /\ fanUser' = NULL
         /\ disconnected' = <<>>
         /\ UNCHANGED <<fanKind, fanRoom, roomIt, fanOutcome>>

(* send_personal_message: return when the user has no connection, else     *)
(* loop over the user's set itself.                                        *)
UserEnter ==
    /\ fanPc = "userEnter"
    /\ IF fanUser \notin DOMAIN active_connections
       THEN Return
       ELSE /\ userIt' = Iter(active_connections[fanUser])
            /\ disconnected' = <<>>
            /\ fanPc' = "userNext"
            /\ UNCHANGED <<fanKind, fanRoom, roomIt, fanUser, fanOutcome>>
    /\ wsCall' = NoWsCall
    /\ UNCHANGED <<sock, active_connections, rooms, delivered, fanMembers,
                   fanLive, fanFailed>>

(* The inner loop, entered or resumed after send_json: it raises, or takes *)
(* its next connection and sends (a closed one is noted in `disconnected`  *)
(* ), or ends.                                                            *)
UserNext ==
    /\ fanPc \in {"userNext", "sending"}
    /\ LET cur == Current(userIt,
                          IF userIt.live THEN active_connections[fanUser]
                          ELSE {})
       IN  IF IterRaises(userIt, cur)
           THEN /\ Finish("raised")
                /\ UNCHANGED <<fanKind, fanRoom, delivered, fanFailed>>
           ELSE \/ \E ws \in cur \ userIt.seen :
                      /\ userIt' = [userIt EXCEPT !.seen = @ \cup {ws}]
                      /\ fanPc' = "sending"
                      /\ IF sock[ws] = "open"
                         THEN /\ delivered' =
                                    [delivered EXCEPT ![ws] = @ + 1]
                              /\ UNCHANGED <<disconnected, fanFailed>>
                         ELSE /\ disconnected' = Append(disconnected, ws)
                              /\ fanFailed' = fanFailed \cup {ws}
                              /\ UNCHANGED delivered
                      /\ UNCHANGED <<fanKind, fanRoom, roomIt, fanUser,
                                     fanOutcome>>
                \/ /\ IterCanStop(userIt, cur)
                   /\ fanPc' = "cleanup"
                   /\ userIt' = NoIter
                   /\ UNCHANGED <<fanKind, fanRoom, roomIt, fanUser,
                                  disconnected, fanOutcome, delivered,
                                  fanFailed>>
    /\ wsCall' = NoWsCall
    /\ UNCHANGED <<sock, active_connections, rooms, fanMembers, fanLive>>

(* send_personal_message: disconnect what failed, one call per step. *)
Cleanup ==
    /\ fanPc = "cleanup"
    /\ IF disconnected = <<>>
       THEN /\ Return
            /\ wsCall' = NoWsCall
            /\ UNCHANGED active_connections
       ELSE /\ active_connections' =
                  Disconnected(active_connections, Head(disconnected),
                               fanUser)
            /\ wsCall' = DisconnectCall(Head(disconnected), fanUser)
            /\ disconnected' = Tail(disconnected)
            /\ UNCHANGED <<fanPc, fanKind, fanRoom, roomIt, fanUser, userIt,
                           fanOutcome>>
    /\ UNCHANGED <<sock, rooms, delivered, fanMembers, fanLive, fanFailed>>

---------------------------------------------------------------------------
(* The notification dispatcher (services/notification_service.py) with the *)
(* email relay (services/email_service.py).                                *)
(*                                                                         *)
(* A call of notify_alert, notify_case_update or notify_sla_breach selects *)
(* its recipients and serves them one after the other; it awaits the push  *)
(* and the email of each, so the registry may change between two           *)
(* recipients.  The push of one recipient is taken as one step here: what  *)
(* a registry change during a send loop does is explored under SpecWS.     *)

NotifyUsers == {1, 2, 3}

(* users.role; every user is active. *)
UserRole(u) == IF u = 3 THEN "admin" ELSE Role(u)

(* A null or empty string column, and the texts of the model. *)
NoText == "NULL"
NoSeverity == "None"
Severities == {"Critical", "High", "Medium", "Low"}

(* Strings of digits and ":" as sequences of character ranks: a digit is   *)
(* its value, ":" ranks above "9" as in ASCII.                             *)
Colon == 10
NoTime == <<>>

(* strftime("%H:%M") *)
Strftime(h, m) == <<h \div 10, h % 10, Colon, m \div 10, m % 10>>

(* Python's <= on str: lexicographic, a proper prefix first. *)
RECURSIVE StrLeq(_, _)
StrLeq(a, b) ==
    IF a = <<>> THEN TRUE
    ELSE IF b = <<>> THEN FALSE
    ELSE IF Head(a) # Head(b) THEN Head(a) < Head(b)
    ELSE StrLeq(Tail(a), Tail(b))

(* The readings of the wall clock that are explored: 02:00 and 12:00. *)
Clocks == {Strftime(2, 0), Strftime(12, 0)}

(* No NotificationPreference row; the row with the column defaults; rows   *)
(* with quiet hours 22:00-06:00 and 00:00-06:00, the first also with email *)
(* for Medium alerts; a row with both channels disabled.                   *)
NoPrefs == [row |-> FALSE]
DefaultRow ==
    [row |-> TRUE, email_enabled |-> TRUE, email_critical_alerts |-> TRUE,
     email_high_alerts |-> TRUE, email_medium_alerts |-> FALSE,
     email_low_alerts |-> FALSE, email_case_updates |-> TRUE,
     websocket_enabled |-> TRUE, quiet_hours_enabled |-> FALSE,
     quiet_hours_start |-> NoTime, quiet_hours_end |-> NoTime]
NightRow ==
    [DefaultRow EXCEPT !.quiet_hours_enabled = TRUE,
                       !.quiet_hours_start = Strftime(22, 0),
                       !.quiet_hours_end = Strftime(6, 0),
                       !.email_medium_alerts = TRUE]
EarlyRow ==
    [DefaultRow EXCEPT !.quiet_hours_enabled = TRUE,
                       !.quiet_hours_start = Strftime(0, 0),
                       !.quiet_hours_end = Strftime(6, 0)]
MutedRow ==
    [DefaultRow EXCEPT !.email_enabled = FALSE, !.websocket_enabled = FALSE]
PrefsOptions ==
    [u \in NotifyUsers |->
        CASE u = 1 -> {NoPrefs, NightRow, EarlyRow}
          [] u = 2 -> {NoPrefs, MutedRow}
          [] OTHER -> {NoPrefs, DefaultRow}]

(* An email decision that also looks at the notification log: no email     *)
(* once the log holds a row.                                               *)
ShouldSendEmailOncePerLog(prefs, notification_type, severity, clock) ==
    /\ notifications = <<>>
    /\ IF ~prefs.row THEN severity \in {"Critical", "High"}
       ELSE prefs.email_enabled

(* _should_send_email, with the reading of the clock it takes. *)
ShouldSendEmail(prefs, notification_type, severity, clock) ==
    IF ~prefs.row THEN severity \in {"Critical", "High"}
    ELSE IF ~prefs.email_enabled THEN FALSE
    ELSE IF /\ prefs.quiet_hours_enabled
            /\ prefs.quiet_hours_start # NoTime
            /\ prefs.quiet_hours_end # NoTime
            /\ StrLeq(prefs.quiet_hours_start, clock)
            /\ StrLeq(clock, prefs.quiet_hours_end)
         THEN severity = "Critical"
    ELSE IF notification_type = "alert"
         THEN CASE severity = "Critical" -> prefs.email_critical_alerts
                [] severity = "High" -> prefs.email_high_alerts
                [] severity = "Medium" -> prefs.email_medium_alerts
                [] severity = "Low" -> prefs.email_low_alerts
                [] OTHER -> FALSE
    ELSE IF notification_type = "case_update"
         THEN prefs.email_case_updates
    ELSE FALSE

(* notify_alert, notify_case_update: `not preferences or                   *)
(* preferences.websocket_enabled`                                          *)
ShouldPush(prefs) == ~prefs.row \/ prefs.websocket_enabled

(* The users a call addresses, in the order of their ids. *)
RECURSIVE InOrder(_, _)
InOrder(us, from) ==
    IF from > 3 THEN <<>>
    ELSE (IF from \in us THEN <<from>> ELSE <<>>) \o InOrder(us, from + 1)

Recipients(op, targets) ==
    IF op = "notify_sla_breach"
    THEN {u \in NotifyUsers : UserRole(u) \in {"supervisor", "admin"}}
    ELSE IF targets # {} THEN targets \cap NotifyUsers
    ELSE {u \in NotifyUsers :
             UserRole(u) \in {"security_lead", "supervisor", "admin"}}

(* send_personal_message run to its end: the open connections of the user  *)
(* get the message, the closed ones are disconnected.                      *)
RECURSIVE Pruned(_, _, _)
Pruned(act, dead, u) ==
    IF dead = {} THEN act
    ELSE LET ws == CHOOSE w \in dead : TRUE
         IN  Pruned(Disconnected(act, ws, u), dead \ {ws}, u)

PushPersonal(act, u) ==
    IF u \notin DOMAIN act THEN [act |-> act, hits |-> {}]
    ELSE LET open == {ws \in act[u] : sock[ws] = "open"}
         IN  [act |-> Pruned(act, act[u] \ open, u), hits |-> open]

(* broadcast_to_room run to its end. *)
RECURSIVE PushMembers(_, _)
PushMembers(res, members) ==
    IF members = {} THEN res
    ELSE LET u == CHOOSE v \in members : TRUE
             one == PushPersonal(res.act, u)
         IN  PushMembers([act |-> one.act, hits |-> res.hits \cup one.hits],
                         members \ {u})

BroadcastRoom(act, r) ==
    IF r \notin DOMAIN rooms THEN [act |-> act, hits |-> {}]
    ELSE PushMembers([act |-> act, hits |-> {}], rooms[r])

(* _send_email_sync: not configured (a warning is logged, False), the      *)
(* relay fails (caught, False), or the mail is sent (True).                *)
SendEmail(relayOk) ==
    IF smtp = "unconfigured" THEN "skipped"
    ELSE IF relayOk THEN "sent" ELSE "failed"

(* _log_notification *)
Row(u, type, channel, is_delivered, delivery_error) ==
    [user_id |-> u, notification_type |-> type, channel |-> channel,
     is_delivered |-> is_delivered, delivery_error |-> delivery_error,
     is_read |-> FALSE, read_at |-> NULL]

(* mark_notification_read, mark_all_read: the call and what it returned. *)
NoRead == [op |-> "none"]
ReadCall(op, id, user, at, result) ==
    [op |-> op, id |-> id, user |-> user, at |-> at, result |-> result]

(* The readings of the clock at which notifications are read. *)
ReadTimes == {1, 2}

(* A mark_notification_read whose query does not filter on the user. *)
ReadableByAnyone(rows, id, user) == id \in 1..Len(rows)

(* mark_notification_read's query: the row with this id and this user. *)
Readable(rows, id, user) ==
    id \in 1..Len(rows) /\ rows[id].user_id = user

(* mark_notification_read *)
MarkNotificationRead(id, user, at) ==
    LET found == Readable(notifications, id, user)
    IN  /\ notifications' =
              IF found
              THEN [notifications EXCEPT ![id].is_read = TRUE,
                                         ![id].read_at = at]
              ELSE notifications
        /\ readCall' = ReadCall("mark_notification_read", id, user, at,
                                found)
        /\ UNCHANGED <<preferences, warnings, smtp, job>>
        /\ UNCHANGED <<alertVars, wsVars>>

(* mark_all_read: one UPDATE of the user's unread rows, returning their    *)
(* number.                                                                 *)
MarkAllRead(user, at) ==
    LET unread == {i \in 1..Len(notifications) :
                      /\ notifications[i].user_id = user
                      /\ ~notifications[i].is_read}
    IN  /\ notifications' =
              [i \in 1..Len(notifications) |->
                  IF i \in unread
                  THEN [notifications[i] EXCEPT !.is_read = TRUE,
                                                !.read_at = at]
                  ELSE notifications[i]]
        /\ readCall' = ReadCall("mark_all_read", NULL, user, at,
                                Cardinality(unread))
        /\ UNCHANGED <<preferences, warnings, smtp, job>>
        /\ UNCHANGED <<alertVars, wsVars>>

NoJob ==
    [op |-> "none", type |-> "none", severity |-> NoSeverity,
     description |-> NoText, todo |-> <<>>, recipients |-> {},
     raised |-> FALSE, waiting |-> FALSE, calls |-> 0, first |-> 1,
     attempts |-> {}, pushes |-> [ws \in Sockets |-> 0], results |-> {},
     decisions |-> {}]

(* The call is over: every recipient was served, or an exception left it. *)
Over == job.todo = <<>> \/ job.raised

(* A call starts and selects its recipients. *)
BeginCall(op, type, severity, description, targets) ==
    /\ Over
    /\ job.calls < MaxCalls
    /\ job' = [NoJob EXCEPT
                 !.op = op, !.type = type, !.severity = severity,
                 !.description = description,
                 !.todo = InOrder(Recipients(op, targets), 1),
                 !.recipients = Recipients(op, targets),
                 !.calls = job.calls + 1,
                 !.first = Len(notifications) + 1]
    /\ readCall' = NoRead
    /\ UNCHANGED <<preferences, notifications, warnings, smtp>>
    /\ UNCHANGED <<alertVars, wsVars>>

(* create_alert and process_event_alerts pass the alert's description,     *)
(* which may be null, and no targets; assign_alert names the assignee and  *)
(* builds the description itself.                                          *)
NotifyAlert(severity, description, targets) ==
    /\ targets # {} => description # NoText
    /\ BeginCall("notify_alert", "alert", severity, description, targets)

NotifyCaseUpdate(targets) ==
    BeginCall("notify_case_update", "case_update", NoSeverity, "text",
              targets)

NotifySlaBreach ==
    BeginCall("notify_sla_breach", "sla_breach", NoSeverity, "text", {})

AddHits(pushes, hits) ==
    [ws \in Sockets |-> pushes[ws] + IF ws \in hits THEN 1 ELSE 0]

(* The loop body of notify_alert and notify_case_update for the next       *)
(* recipient: push and its log row, then email and its log row.  The       *)
(* alert email slices the description for its subject line, which raises   *)
(* TypeError on a null description.                                        *)
ServeRecipient(clock, relayOk) ==
    LET u == Head(job.todo)
        prefs == preferences[u]
        push == ShouldPush(prefs)
        mail == ShouldSendEmail(prefs, job.type, job.severity, clock)
        pushed == IF push THEN PushPersonal(active_connections, u)
                  ELSE [act |-> active_connections, hits |-> {}]
        raises == /\ mail
                  /\ job.op = "notify_alert"
                  /\ job.description = NoText
        result == IF raises THEN "raised" ELSE SendEmail(relayOk)
        text == IF job.op = "notify_alert" /\ result # "sent"
                THEN "Email delivery failed" ELSE NoText
    IN  /\ ~Over
        /\ ~job.waiting
        /\ job.op \in {"notify_alert", "notify_case_update"}
        /\ active_connections' = pushed.act
        /\ notifications' =
              notifications
              \o (IF push
                  THEN <<Row(u, job.type, "websocket", TRUE, NoText)>>
                  ELSE <<>>)
              \o (IF mail /\ ~raises
                  THEN <<Row(u, job.type, "email", result = "sent", text)>>
                  ELSE <<>>)
        /\ warnings' = warnings + IF mail /\ result = "skipped" THEN 1 ELSE 0
        /\ job' = [job EXCEPT
                     !.todo = Tail(@),
                     !.raised = raises,
                     !.attempts = @ \cup
                         (IF push THEN {<<u, "websocket">>} ELSE {}) \cup
                         (IF mail THEN {<<u, "email">>} ELSE {}),
                     !.pushes = AddHits(@, pushed.hits),
                     !.results = @ \cup
                         (IF mail THEN {<<u, result>>} ELSE {}),
                     !.decisions = @ \cup
                         {[user |-> u, preferences |-> prefs,
                           type |-> job.type, severity |-> job.severity,
                           clock |-> clock, push |-> push, email |-> mail,
                           logged |-> Len(notifications)]}]
        /\ readCall' = NoRead
        /\ UNCHANGED <<preferences, smtp>>
        /\ UNCHANGED <<sock, rooms, fanPc, fanKind, fanRoom, roomIt, fanUser,
                       userIt, disconnected, delivered, fanMembers, fanLive,
                       fanFailed, fanOutcome, wsCall>>
        /\ UNCHANGED alertVars

(* The loop body of notify_alert and notify_case_update when the relay      *)
(* accepts the connection and never answers: smtplib.SMTP is created       *)
(* without a timeout, and the dispatcher awaits the executor running it.   *)
(* The push and its log row are done; the call stays in the await.         *)
AwaitSilentRelay(clock) ==
    LET u == Head(job.todo)
        prefs == preferences[u]
        push == ShouldPush(prefs)
        mail == ShouldSendEmail(prefs, job.type, job.severity, clock)
        pushed == IF push THEN PushPersonal(active_connections, u)
                  ELSE [act |-> active_connections, hits |-> {}]
    IN  /\ ~Over
        /\ ~job.waiting
        /\ job.op \in {"notify_alert", "notify_case_update"}
        /\ smtp = "configured"
        /\ mail
        /\ ~(job.op = "notify_alert" /\ job.description = NoText)
        /\ active_connections' = pushed.act
        /\ notifications' =
              notifications
              \o (IF push
                  THEN <<Row(u, job.type, "websocket", TRUE, NoText)>>
                  ELSE <<>>)
        /\ job' = [job EXCEPT
                     !.waiting = TRUE,
                     !.attempts = @ \cup
                         (IF push THEN {<<u, "websocket">>} ELSE {}) \cup
                         {<<u, "email">>},
                     !.pushes = AddHits(@, pushed.hits)]
        /\ readCall' = NoRead
        /\ UNCHANGED <<preferences, smtp, warnings>>
        /\ UNCHANGED <<sock, rooms, fanPc, fanKind, fanRoom, roomIt, fanUser,
                       userIt, disconnected, delivered, fanMembers, fanLive,
                       fanFailed, fanOutcome, wsCall>>
        /\ UNCHANGED alertVars

(* The loop body of notify_sla_breach for the next supervisor or admin: a  *)
(* broadcast to room "supervisors", an email whose result is dropped, and  *)
(* one log row.                                                            *)
ServeSupervisor(relayOk) ==
    LET u == Head(job.todo)
        pushed == BroadcastRoom(active_connections, "supervisors")
        result == SendEmail(relayOk)
    IN  /\ ~Over
        /\ job.op = "notify_sla_breach"
        /\ active_connections' = pushed.act
        /\ notifications' =
              Append(notifications,
                     Row(u, "sla_breach", "email", TRUE, NoText))
        /\ warnings' = warnings + IF result = "skipped" THEN 1 ELSE 0
        /\ job' = [job EXCEPT
                     !.todo = Tail(@),
                     !.attempts = @ \cup {<<u, "websocket">>, <<u, "email">>},
                     !.pushes = AddHits(@, pushed.hits),
                     !.results = @ \cup {<<u, result>>}]
        /\ readCall' = NoRead
        /\ UNCHANGED <<preferences, smtp>>
        /\ UNCHANGED <<sock, rooms, fanPc, fanKind, fanRoom, roomIt, fanUser,
                       userIt, disconnected, delivered, fanMembers, fanLive,
                       fanFailed, fanOutcome, wsCall>>
        /\ UNCHANGED alertVars

---------------------------------------------------------------------------
AlertInit ==
    /\ now = 0
    /\ events = <<>>
    /\ alerts = <<>>
    /\ sweepPc = "idle"
    /\ sweepNow = NULL
    /\ sweepSel = {}
    /\ breachReturns = <<>>
    /\ lastEval = <<>>
    /\ lastOp = NoCall

(* ConnectionManager.__init__, no fan-out running. *)
WsInit ==
    /\ sock = [ws \in Sockets |-> "new"]
    /\ active_connections = <<>>
    /\ rooms = <<>>
    /\ fanPc = "idle"
    /\ fanKind = "none"
    /\ fanRoom = NoRoom
    /\ roomIt = NoIter
    /\ fanUser = NULL
    /\ userIt = NoIter
    /\ disconnected = <<>>
    /\ delivered = [ws \in Sockets |-> 0]
    /\ fanMembers = {}
    /\ fanLive = {}
    /\ fanFailed = {}
    /\ fanOutcome = "none"
    /\ wsCall = NoWsCall

(* Empty notification log, no call; the preference rows and the SMTP       *)
(* settings are whatever the deployment holds.                             *)
NotifyInit ==
    /\ preferences \in {p \in [NotifyUsers -> UNION {PrefsOptions[u] : u \in NotifyUsers}] :
                          \A u \in NotifyUsers : p[u] \in PrefsOptions[u]}
    /\ notifications = <<>>
    /\ warnings = 0
    /\ smtp \in {"configured", "unconfigured"}
    /\ job = NoJob
    /\ readCall = NoRead

(* The alert pipeline and the registry are explored from the deployment    *)
(* without preference rows and without mail relay.                         *)
NotifyIdle ==
    /\ preferences = [u \in NotifyUsers |-> NoPrefs]
    /\ notifications = <<>>
    /\ warnings = 0
    /\ smtp = "unconfigured"
    /\ job = NoJob
    /\ readCall = NoRead

Init == AlertInit /\ WsInit /\ NotifyIdle

InitNotify == AlertInit /\ WsInit /\ NotifyInit

(* The tables of an exploration stay within its bounds. *)
Within(maxTime, maxEvents, maxAlerts) ==
    /\ now' <= maxTime
    /\ Len(events') <= maxEvents
    /\ Len(alerts') <= maxAlerts

EngineFrame ==
    /\ Within(MaxTime, MaxEvents, MaxAlerts)
    /\ UNCHANGED <<wsVars, notifyVars>>

AlertFrame ==
    /\ Within(MaxSweepTime, MaxSweepEvents, MaxSweepAlerts)
    /\ UNCHANGED <<wsVars, notifyVars>>

WsFrame == UNCHANGED <<alertVars, notifyVars>>

(* The creators of alerts: event ingestion, the background evaluation,     *)
(* the manual creation; and the clock.                                     *)
EngineNext ==
    \/ \E input \in EventInputs : CreateEvent(input) /\ EngineFrame
    \/ \E eid \in 1..Len(events) : ProcessEventAlerts(eid) /\ EngineFrame
    \/ \E data \in ManualInputs : CreateAlert(data) /\ EngineFrame
    \/ Tick /\ EngineFrame

(* Creation, the operations on stored alerts, the SLA sweep, the clock. *)
AlertNext ==
    \/ \E input \in EventInputs : CreateEvent(input) /\ AlertFrame
    \/ \E data \in ManualInputs : CreateAlert(data) /\ AlertFrame
    \/ Tick /\ AlertFrame
    \/ \E a \in 1..Len(alerts), data \in UpdatePayloads :
            UpdateAlert(a, data) /\ AlertFrame
    \/ \E a \in 1..(Len(alerts) + 1), u \in UserIds :
            AcknowledgeAlert(a, u) /\ AlertFrame
    \/ \E a \in 1..Len(alerts), u \in UserIds :
            AssignAlert(a, u) /\ AlertFrame
    \/ \E a \in 1..Len(alerts), u \in UserIds :
            ResolveAlert(a, u) /\ AlertFrame
    \/ \E a \in 1..Len(alerts), c \in CaseIds :
            LinkAlertToCase(a, c) /\ AlertFrame
    \/ SweepSelect /\ AlertFrame
    \/ SweepWrite /\ AlertFrame

(* The coroutines of the event loop around the registry, and the fan-out   *)
(* call that is followed.                                                  *)
WsNext ==
    \/ \E ws \in Sockets : Connect(ws) /\ WsFrame
    \/ \E ws \in Sockets : ClientClose(ws) /\ WsFrame
    \/ \E ws \in Sockets : HandlerDisconnect(ws) /\ WsFrame
    \/ \E u \in WsUsers, r \in Rooms : JoinRoom(u, r) /\ WsFrame
    \/ \E u \in WsUsers, r \in Rooms : LeaveRoom(u, r) /\ WsFrame
    \/ \E u \in WsUsers : StartPersonal(u) /\ WsFrame
    \/ \E r \in Rooms : StartRoom(r) /\ WsFrame
    \/ StartAll /\ WsFrame
    \/ RoomNext /\ WsFrame
    \/ UserEnter /\ WsFrame
    \/ UserNext /\ WsFrame
    \/ Cleanup /\ WsFrame

(* The rule engine and the other creators of alerts. *)
Engine == Init /\ [][EngineNext]_vars

(* The alert pipeline: creation, the REST operations and the SLA sweep. *)
Spec == Init /\ [][AlertNext]_vars

(* The connection registry under concurrent handlers and one fan-out. *)
SpecWS == Init /\ [][WsNext]_vars

(* What runs in the application as it is wired: the requests and the       *)
(* clock.  Nothing passes process_event_alerts to                          *)
(* background_tasks.add_task, and no task, timer or request calls          *)
(* check_sla_breaches (main.py, lifespan): neither is a step here.         *)
WiredNext ==
    \/ \E input \in EventInputs : CreateEvent(input) /\ AlertFrame
    \/ \E data \in ManualInputs : CreateAlert(data) /\ AlertFrame
    \/ Tick /\ AlertFrame
    \/ \E a \in 1..Len(alerts), data \in UpdatePayloads :
            UpdateAlert(a, data) /\ AlertFrame
    \/ \E a \in 1..(Len(alerts) + 1), u \in UserIds :
            AcknowledgeAlert(a, u) /\ AlertFrame
    \/ \E a \in 1..Len(alerts), u \in UserIds :
            AssignAlert(a, u) /\ AlertFrame
    \/ \E a \in 1..Len(alerts), u \in UserIds :
            ResolveAlert(a, u) /\ AlertFrame
    \/ \E a \in 1..Len(alerts), c \in CaseIds :
            LinkAlertToCase(a, c) /\ AlertFrame

Wired == Init /\ [][WiredNext]_vars

(* The rule engine with rules that throw. *)
FaultyNext ==
    \/ EngineNext
    \/ \E eid \in 1..Len(events), fault \in Faults :
            EvaluateWithFault(eid, fault) /\ EngineFrame

Faulty == Init /\ [][FaultyNext]_vars

(* The dispatcher among the connection handlers. *)
NotifyNext ==
    \/ \E ws \in {"w1", "w3"} : Connect(ws) /\ WsFrame
    \/ \E ws \in {"w1", "w3"} : ClientClose(ws) /\ WsFrame
    \/ \E severity \in Severities, description \in {NoText, "text"},
          targets \in {{}, {2}} :
            NotifyAlert(severity, description, targets)
    \/ \E targets \in {{}, {2}} : NotifyCaseUpdate(targets)
    \/ NotifySlaBreach
    \/ \E clock \in Clocks, relayOk \in BOOLEAN :
            ServeRecipient(clock, relayOk)
    \/ \E relayOk \in BOOLEAN : ServeSupervisor(relayOk)
    \/ \E clock \in Clocks : AwaitSilentRelay(clock)

Notify == InitNotify /\ [][NotifyNext]_vars

(* The connection handlers alone, from the handshake to their end. *)
HandlersNext ==
    \/ \E ws \in Sockets, token \in TokenKinds :
            Handshake(ws, token) /\ WsFrame
    \/ \E ws \in Sockets : ClientClose(ws) /\ WsFrame
    \/ \E ws \in Sockets : HandlerDisconnect(ws) /\ WsFrame
    \/ \E ws \in Sockets : HandlerRaise(ws) /\ WsFrame
    \/ \E u \in WsUsers, r \in Rooms : JoinRoom(u, r) /\ WsFrame
    \/ \E u \in WsUsers, r \in Rooms : LeaveRoom(u, r) /\ WsFrame

Handlers == Init /\ [][HandlersNext]_vars

(* The notification log between the dispatcher, which appends to it, and   *)
(* the inbox requests of the users, which mark rows read.                  *)
InboxNext ==
    \/ \E severity \in {"Critical", "Low"}, targets \in {{}, {2}} :
            NotifyAlert(severity, "text", targets)
    \/ \E clock \in Clocks, relayOk \in BOOLEAN :
            ServeRecipient(clock, relayOk)
    \/ \E id \in 1..(Len(notifications) + 1), user \in NotifyUsers,
          at \in ReadTimes : MarkNotificationRead(id, user, at)
    \/ \E user \in NotifyUsers, at \in ReadTimes : MarkAllRead(user, at)

Inbox == Init /\ [][InboxNext]_vars
---------------------------------------------------------------------------
(* Properties of the rule engine, checked under Engine. *)

(* An alert of this event and rule was created within the 60 minutes       *)
(* before t.                                                               *)
CreatedWithinHour(als, eid, rule, t) ==
    \E i \in 1..Len(als) :
        /\ als[i].event_id = eid
        /\ als[i].rule_id = rule
        /\ t - als[i].created_at <= 60

(* What one process_event call did: it returned exactly the rows it        *)
(* appended, left the stored rows alone, and appended for every rule one   *)
(* open alert of the event if the rule matches and no alert of the pair    *)
(* was created within the preceding 60 minutes, and none otherwise.        *)
OnePerUnsuppressedMatch ==
    LET eid == lastOp'.event
        new == Appended(alerts, alerts')
    IN  /\ lastOp'.alerts = new
        /\ SubSeq(alerts', 1, Len(alerts)) = alerts
        /\ \A i \in new :
              /\ alerts'[i].event_id = eid
              /\ alerts'[i].status = "open"
              /\ alerts'[i].sla_breached = FALSE
              /\ alerts'[i].created_at = now
        /\ \A r \in RuleIds :
              Cardinality({i \in new : alerts'[i].rule_id = r}) =
                  IF /\ Evaluate(r, events'[eid], now)
                     /\ ~CreatedWithinHour(alerts, eid, r, now)
                  THEN 1 ELSE 0
        /\ Cardinality(new) =
              Cardinality({r \in RuleIds :
                              /\ Evaluate(r, events'[eid], now)
                              /\ ~CreatedWithinHour(alerts, eid, r, now)})

(* The call evaluates an event that was evaluated at most 60 minutes ago. *)
RepeatWithinHour ==
    LET eid == lastOp'.event
    IN  /\ eid <= Len(lastEval)
        /\ lastEval[eid] # Never
        /\ now - lastEval[eid] <= 60

(* C1, as amended: every process_event call creates exactly one alert per  *)
(* matching rule, except for a rule whose alert for the event was created  *)
(* within the preceding 60 minutes, for which it creates none; the alerts  *)
(* created are as many as the matching, unsuppressed rules.                *)
C1_OneAlertPerUnsuppressedMatch ==
    [][lastOp'.op = "process_event" => OnePerUnsuppressedMatch]_vars

(* C1 as stated: in addition, a call that evaluates an event again within  *)
(* 60 minutes of its previous evaluation creates no alert.                 *)
C1_RepeatCreatesNothing ==
    [][lastOp'.op = "process_event" =>
          /\ OnePerUnsuppressedMatch
          /\ RepeatWithinHour => lastOp'.alerts = {}]_vars

(* The three-rule event was evaluated again within the hour and the call   *)
(* returned nothing.                                                       *)
C1_Witness ==
    /\ lastOp.op = "process_event"
    /\ lastOp.alerts = {}
    /\ Cardinality({i \in 1..Len(alerts) :
                       /\ alerts[i].event_id = lastOp.event
                       /\ alerts[i].rule_id \in RuleIds
                       /\ alerts[i].created_at < now}) = 3

(* C2: no two alerts of the same event and rule have created_at values     *)
(* within 60 minutes of each other.                                        *)
C2_NoDuplicateWithinHour ==
    \A i, j \in 1..Len(alerts) :
        /\ i < j
        /\ alerts[i].event_id # NULL
        /\ alerts[i].event_id = alerts[j].event_id
        /\ alerts[i].rule_id # NoRule
        /\ alerts[i].rule_id = alerts[j].rule_id
        => alerts[j].created_at - alerts[i].created_at > 60

---------------------------------------------------------------------------
(* Properties of the alert lifecycle and the SLA sweep, checked under      *)
(* Spec.                                                                   *)

(* C3: no step takes an alert's sla_breached from true back to false. *)
C3_BreachedIsMonotonic ==
    [][\A a \in 1..Len(alerts) :
          alerts[a].sla_breached =>
              a <= Len(alerts') /\ alerts'[a].sla_breached]_vars

(* A REST operation has just written an alert that was already breached. *)
C3_Witness ==
    /\ lastOp.op \in {"update_alert", "assign_alert", "resolve_alert",
                      "link_alert_to_case"}
    /\ \A a \in lastOp.alerts : alerts[a].sla_breached

(* C4: over all runs of the sweep, check_sla_breaches returns an alert,    *)
(* and so hands it to the escalation, at most once.                        *)
C4_EscalatedAtMostOnce ==
    \A a \in 1..Len(alerts) : breachReturns[a] <= 1

(* A later run of the sweep has loaded its candidates and passed over an   *)
(* alert, still open or acknowledged, that an earlier run returned.        *)
C4_Witness ==
    \E a \in 1..Len(alerts) :
        /\ breachReturns[a] = 1
        /\ alerts[a].status \in {"open", "acknowledged"}
        /\ sweepPc = "loaded"
        /\ a \notin sweepSel

(* C5: the sweep flags and returns only alerts that are open or            *)
(* acknowledged when it writes.                                            *)
C5_SweepRevalidatesStatus ==
    [][lastOp'.op = "check_sla_breaches" =>
          \A a \in lastOp'.alerts :
              alerts[a].status \in {"open", "acknowledged"}]_vars

Rank(status) ==
    CASE status = "open" -> 0
      [] status = "acknowledged" -> 1
      [] status = "assigned" -> 2
      [] status = "investigating" -> 3
      [] status = "closed" -> 4

(* C6: no step moves an alert to an earlier status of                      *)
(* open, acknowledged, assigned, investigating, closed.                    *)
C6_StatusOnlyForward ==
    [][\A a \in 1..Len(alerts) :
          Rank(alerts'[a].status) >= Rank(alerts[a].status)]_vars
---------------------------------------------------------------------------
(* Properties of the connection registry, checked under SpecWS. *)

(* A fan-out call of this kind has ended. *)
Ended(kinds) ==
    /\ fanPc = "idle"
    /\ fanKind \in kinds
    /\ fanOutcome \in {"returned", "raised"}

(* The connections the call addressed that were open when it started and   *)
(* are still open.                                                         *)
StillLive == {ws \in fanLive : sock[ws] = "open"}

(* C7: when broadcast_to_room has ended, every live connection of a user   *)
(* who was a member of the room when the broadcast started has received    *)
(* the message exactly once, and no connection of anybody else has         *)
(* received it.                                                            *)
C7_RoomBroadcastReachesMembersOnce ==
    Ended({"room"}) =>
        /\ \A ws \in StillLive : delivered[ws] = 1
        /\ \A ws \in Sockets :
              delivered[ws] > 0 =>
                  delivered[ws] = 1 /\ Owner(ws) \in fanMembers

(* C8: connect, disconnect, join_room and leave_room interleaved with a    *)
(* fan-out never abort it: no fan-out call ends by an exception, and the   *)
(* maps keep no empty set.                                                 *)
C8_FanOutNeverAborted ==
    /\ fanOutcome # "raised"
    /\ \A u \in DOMAIN active_connections : active_connections[u] # {}
    /\ \A r \in DOMAIN rooms : rooms[r] # {}

(* C9: when a fan-out call in which a send failed has ended, no exception  *)
(* left it, the connections whose send failed are out of                   *)
(* active_connections, and every other live connection it addressed has    *)
(* received the message.                                                   *)
C9_FailedSendIsPruned ==
    (Ended({"personal", "room", "all"}) /\ fanFailed # {}) =>
        /\ fanOutcome = "returned"
        /\ \A ws \in fanFailed :
              ~Registered(active_connections, ws, Owner(ws))
        /\ \A ws \in StillLive : delivered[ws] = 1

(* C10: a disconnect call for a connection that is not registered under    *)
(* the user (a second call for it, or a user without entry) leaves         *)
(* active_connections and rooms as they are, and raises nothing: the       *)
(* fan-out that made the call is not ended by it.                          *)
C10_DisconnectIsIdempotent ==
    [][(wsCall'.op = "disconnect" /\ ~wsCall'.registered) =>
          /\ active_connections' = active_connections
          /\ rooms' = rooms
          /\ fanOutcome' = fanOutcome]_vars

(* A disconnect call met a connection that an earlier disconnect had       *)
(* removed, while the user still had another connection registered.        *)
C10_Witness ==
    /\ wsCall.op = "disconnect"
    /\ ~wsCall.registered
    /\ sock[wsCall.ws] = "ended"
    /\ wsCall.user \in DOMAIN active_connections
---------------------------------------------------------------------------
(* Properties of the application as wired, checked under Wired. *)

(* C11: every event that create_event stored has been evaluated by the     *)
(* rule engine.  Under Wired no later step evaluates an event, so an event *)
(* that create_event returned unevaluated stays so.                        *)
C11_EveryEventEvaluated ==
    \A e \in 1..Len(events) : lastEval[e] # Never

(* C12: an alert in status open or acknowledged with a timer, whose        *)
(* deadline had passed already at the previous reading of the clock, has   *)
(* been marked sla_breached.                                               *)
C12_OverdueAlertsMarked ==
    \A a \in 1..Len(alerts) :
        (/\ alerts[a].status \in {"open", "acknowledged"}
         /\ alerts[a].sla_timer # NULL
         /\ now - ClockStep > alerts[a].created_at + alerts[a].sla_timer)
            => alerts[a].sla_breached
---------------------------------------------------------------------------
(* Properties of the rule engine with a rule that throws, under Faulty. *)

RuleIndex(rule) == CHOOSE i \in 1..Len(Rules) : Rules[i] = rule

(* C18: when a rule raises in evaluate, in generate_description or when    *)
(* its alert is committed, process_event does not raise, it returns the    *)
(* rows it appended, and for every other rule it creates one alert if the  *)
(* rule matches and no alert of the pair was created within the preceding  *)
(* 60 minutes, and none otherwise; the rule that throws creates none.      *)
C18_ThrowingRuleIsIsolated ==
    [][lastOp'.op = "process_event_fault" =>
          LET eid == lastOp'.event
              new == Appended(alerts, alerts')
          IN  /\ ~lastOp'.raised
              /\ lastOp'.alerts = new
              /\ SubSeq(alerts', 1, Len(alerts)) = alerts
              /\ \A r \in RuleIds :
                    Cardinality({i \in new : /\ alerts'[i].rule_id = r
                                             /\ alerts'[i].event_id = eid}) =
                        IF /\ r # lastOp'.fault.rule
                           /\ Evaluate(r, events[eid], now)
                           /\ ~CreatedWithinHour(alerts, eid, r, now)
                        THEN 1 ELSE 0]_vars

(* A call in which the rule that throws matches the event (or would, its   *)
(* evaluate raising), and a rule registered after it got its alert.        *)
C18_Witness ==
    /\ lastOp.op = "process_event_fault"
    /\ Evaluate(lastOp.fault.rule, events[lastOp.event], now)
    /\ \E i \in lastOp.alerts :
          RuleIndex(alerts[i].rule_id) > RuleIndex(lastOp.fault.rule)

---------------------------------------------------------------------------
(* The notification dispatcher.                                            *)

(* The log rows the call in hand wrote for a user on a channel. *)
Logged(u, channel) ==
    {i \in job.first..Len(notifications) :
        /\ notifications[i].user_id = u
        /\ notifications[i].channel = channel}

Channels == {"websocket", "email"}

(* C13: when notify_sla_breach has served its recipients, every supervisor *)
(* and admin got one escalation on each channel whatever their             *)
(* preferences, and no connection received the breach more than once.      *)
C13_OneEscalationPerBreach ==
    (job.op = "notify_sla_breach" /\ Over) =>
        /\ \A u \in job.recipients, channel \in Channels :
              <<u, channel>> \in job.attempts
        /\ \A ws \in Sockets : job.pushes[ws] <= 1

(* C14: when a call of the dispatcher is over, the log holds exactly one   *)
(* row for every recipient and channel on which a delivery was attempted,  *)
(* and none for a channel that was not attempted.                          *)
C14_OneLogRowPerAttempt ==
    (job.op # "none" /\ Over) =>
        \A u \in NotifyUsers, channel \in Channels :
            Cardinality(Logged(u, channel)) =
                IF <<u, channel>> \in job.attempts THEN 1 ELSE 0

(* Minutes since midnight of an "HH:MM" string. *)
Minutes(t) == (t[1] * 10 + t[2]) * 60 + t[4] * 10 + t[5]

(* The clock is inside the quiet hours of a preference row; a window whose *)
(* start is later than its end wraps around midnight.                      *)
InQuietHours(prefs, clock) ==
    /\ prefs.row
    /\ prefs.quiet_hours_enabled
    /\ prefs.quiet_hours_start # NoTime
    /\ prefs.quiet_hours_end # NoTime
    /\ LET start == Minutes(prefs.quiet_hours_start)
           end == Minutes(prefs.quiet_hours_end)
           at == Minutes(clock)
       IN  IF start <= end THEN start <= at /\ at <= end
           ELSE start <= at \/ at <= end

(* C15: inside an enabled quiet-hours window, wrap-around included, email  *)
(* is decided only for Critical severity, a Critical alert still gets its  *)
(* email, and the push decision is what it would be outside the window.    *)
C15_QuietHoursRestrictEmail ==
    \A d \in job.decisions :
        InQuietHours(d.preferences, d.clock) =>
            /\ d.email => d.severity = "Critical"
            /\ (/\ d.severity = "Critical"
                /\ d.preferences.email_enabled) => d.email
            /\ d.push = d.preferences.websocket_enabled

(* Two decisions were taken on the same preferences (or none), type,       *)
(* severity and reading of the clock.                                      *)
SameInputs(d, e) ==
    /\ d.preferences = e.preferences
    /\ d.type = e.type
    /\ d.severity = e.severity
    /\ d.clock = e.clock

C17_DefaultPolicyWithoutRow ==
    (job.op = "notify_alert" /\ Over) =>
        \A u \in job.recipients :
            ~preferences[u].row =>
                /\ <<u, "websocket">> \in job.attempts
                /\ <<u, "email">> \in job.attempts
                      <=> job.severity \in {"Critical", "High"}

(* C19: an email send that fails is never raised to the caller of the      *)
(* dispatcher and is logged, for that recipient, as an email row with      *)
(* is_delivered false and a non-empty delivery_error.                      *)
C19_SendFailureIsRecorded ==
    /\ ~job.raised
    /\ \A u \in NotifyUsers :
          <<u, "failed">> \in job.results =>
              /\ Logged(u, "email") # {}
              /\ \A i \in Logged(u, "email") :
                    /\ ~notifications[i].is_delivered
                    /\ notifications[i].delivery_error # NoText

(* C20: a send skipped because the relay is not configured leaves no       *)
(* delivery_error in the log, and the "not configured" warning is logged   *)
(* at most once.                                                           *)
C20_UnconfiguredRelayIsNotAFailure ==
    /\ \A u \in NotifyUsers :
          <<u, "skipped">> \in job.results =>
              \A i \in Logged(u, "email") :
                  notifications[i].delivery_error = NoText
    /\ warnings <= 1

---------------------------------------------------------------------------
(* The acknowledge operation.                                              *)

(* C26: acknowledge_alert answers 200 exactly for an open alert, which it  *)
(* sets to acknowledged with acknowledged_at and acknowledged_by and       *)
(* nothing else; it answers 400 for an alert in any other status and 404   *)
(* for an unknown id, and then changes no alert.                           *)
C26_AcknowledgeOnlyWhenOpen ==
    [][lastOp'.op = "acknowledge_alert" =>
          LET a == lastOp'.id
              known == a \in 1..Len(alerts)
          IN  /\ lastOp'.code = 200 <=> (known /\ alerts[a].status = "open")
              /\ lastOp'.code = 400 <=> (known /\ alerts[a].status # "open")
              /\ lastOp'.code = 404 <=> ~known
              /\ lastOp'.code = 200 =>
                    alerts' = [alerts EXCEPT
                                 ![a].status = "acknowledged",
                                 ![a].acknowledged_at = now,
                                 ![a].acknowledged_by = lastOp'.user]
              /\ lastOp'.code # 200 => alerts' = alerts]_vars

(* An acknowledged alert was acknowledged again and refused. *)
C26_Witness ==
    /\ lastOp.op = "acknowledge_alert"
    /\ lastOp.code = 400
    /\ alerts[lastOp.id].status = "acknowledged"
    /\ alerts[lastOp.id].acknowledged_by # NULL

---------------------------------------------------------------------------
(* The frame of the SLA sweep.                                             *)

(* C29: a run of check_sla_breaches changes an alert only by taking        *)
(* sla_breached from false to true, only on alerts that are open or        *)
(* acknowledged and have a timer, leaves every other field and every       *)
(* other alert as it was, and returns exactly the alerts it changed.       *)
C29_SweepOnlyFlagsLiveAlerts ==
    [][lastOp'.op = "check_sla_breaches" =>
          /\ Len(alerts') = Len(alerts)
          /\ \A a \in 1..Len(alerts) :
                alerts'[a] # alerts[a] =>
                    /\ alerts[a].status \in {"open", "acknowledged"}
                    /\ alerts[a].sla_timer # NULL
                    /\ ~alerts[a].sla_breached
                    /\ alerts'[a] = [alerts[a] EXCEPT !.sla_breached = TRUE]
          /\ lastOp'.alerts =
                {a \in 1..Len(alerts) : alerts'[a] # alerts[a]}]_vars

---------------------------------------------------------------------------
(* Properties of the connection handlers, checked under Handlers.          *)

(* C22: a handshake whose token is invalid, expired, or names an unknown   *)
(* or inactive user is closed with code 4001 and changes neither           *)
(* active_connections nor rooms, and a connection closed so is never in    *)
(* active_connections.                                                     *)
C22_BadCredentialIsClosed ==
    [][/\ (wsCall'.op \in {"accept", "close"} /\ wsCall'.token # "good") =>
              /\ wsCall'.op = "close"
              /\ wsCall'.code = 4001
              /\ sock'[wsCall'.ws] = "rejected"
              /\ active_connections' = active_connections
              /\ rooms' = rooms
       /\ \A ws \in Sockets :
              sock'[ws] = "rejected" =>
                  ~Registered(active_connections', ws, Owner(ws))]_vars

(* The token of a deactivated user was refused while another connection    *)
(* of that user, opened earlier, is registered.                            *)
C22_Witness ==
    /\ wsCall.op = "close"
    /\ wsCall.token = "inactive"
    /\ sock[wsCall.ws] = "rejected"
    /\ Owner(wsCall.ws) \in DOMAIN active_connections

(* C27: the step in which a connection's handler ends leaves the           *)
(* connection out of active_connections.                                   *)
C27_EndedHandlerIsUnregistered ==
    [][\A ws \in Sockets :
          (sock[ws] # "ended" /\ sock'[ws] = "ended") =>
              ~Registered(active_connections', ws, Owner(ws))]_vars

(* C28: every member of every room has a connection in                     *)
(* active_connections.                                                     *)
C28_RoomMembersAreConnected ==
    \A r \in DOMAIN rooms :
        \A u \in rooms[r] :
            u \in DOMAIN active_connections /\ active_connections[u] # {}

---------------------------------------------------------------------------
(* Properties of the notification log, checked under Inbox.                *)

(* A log row without its read flag. *)
Written(row) ==
    [f \in DOMAIN row \ {"is_read", "read_at"} |-> row[f]]

(* C25: no step removes a log row or changes any field of it other than    *)
(* is_read and read_at.  mark_notification_read(id, user) changes only the *)
(* row with that id, only when the user owns it, and returns whether he    *)
(* does; mark_all_read(user) changes only that user's unread rows, marks   *)
(* each of them, and returns their number.                                 *)
C25_LogIsAppendOnly ==
    [][LET changed == {i \in 1..Len(notifications) :
                          notifications'[i] # notifications[i]}
           owned(u) == {i \in 1..Len(notifications) :
                          notifications[i].user_id = u}
           unread(u) == {i \in owned(u) : ~notifications[i].is_read}
       IN  /\ Len(notifications') >= Len(notifications)
           /\ \A i \in 1..Len(notifications) :
                 Written(notifications'[i]) = Written(notifications[i])
           /\ readCall'.op = "none" => changed = {}
           /\ readCall'.op = "mark_notification_read" =>
                 /\ readCall'.result = (readCall'.id \in owned(readCall'.user))
                 /\ changed \subseteq {readCall'.id} \cap owned(readCall'.user)
                 /\ readCall'.result =>
                       /\ notifications'[readCall'.id].is_read
                       /\ notifications'[readCall'.id].read_at = readCall'.at
           /\ readCall'.op = "mark_all_read" =>
                 /\ readCall'.result = Cardinality(unread(readCall'.user))
                 /\ changed = unread(readCall'.user)
                 /\ \A i \in changed :
                       /\ notifications'[i].is_read
                       /\ notifications'[i].read_at = readCall'.at]_vars

(* A user asked to mark a row of another user, unread and left so, while   *)
(* the log also holds a row that was read.                                 *)
C25_Witness ==
    /\ readCall.op = "mark_notification_read"
    /\ ~readCall.result
    /\ readCall.id \in 1..Len(notifications)
    /\ notifications[readCall.id].user_id # readCall.user
    /\ ~notifications[readCall.id].is_read
    /\ \E i \in 1..Len(notifications) : notifications[i].is_read

---------------------------------------------------------------------------
(* From the rule engine to the notification router, checked under Engine.  *)

(* C24: every alert that an evaluation of an ingested event persists is    *)
(* handed to notify_alert by the caller of that evaluation.  Only that     *)
(* caller holds the list of created alerts; no later step notifies a       *)
(* stored alert of an event.                                               *)
C24_PersistedAlertsAreNotified ==
    [][lastOp'.op = "process_event" =>
          lastOp'.notified = lastOp'.alerts]_vars

---------------------------------------------------------------------------
(* The dispatcher and its channels, checked under Notify.                  *)

(* The recipients of the call in hand that are still to be served after    *)
(* the one being served.                                                   *)
Behind == {job.todo[i] : i \in 2..Len(job.todo)}

(* C21: no push is held behind an email send: while the send to one        *)
(* recipient has not completed, no later recipient of the call is still    *)
(* waiting for a push that is due to him.                                  *)
C21_PushDoesNotWaitForEmail ==
    job.waiting => \A u \in Behind : ~ShouldPush(preferences[u])

(* No connection of the user received a push of the call in hand. *)
Unreached(u) == \A ws \in Sockets : Owner(ws) = u => job.pushes[ws] = 0

(* C23: when a call of notify_alert or notify_case_update is over, every   *)
(* recipient to whom a push is due and whom no push of the call reached    *)
(* has a row of this call in the log.                                      *)
C23_OfflineRecipientIsLogged ==
    (job.op \in {"notify_alert", "notify_case_update"} /\ Over) =>
        \A u \in job.recipients :
            (ShouldPush(preferences[u]) /\ Unreached(u)) =>
                Logged(u, "websocket") \cup Logged(u, "email") # {}

(* C30: a row of the call in hand has is_delivered true only if the        *)
(* delivery on its channel succeeded: a push row only if a connection of   *)
(* the user received the message, an email row only if the mail was sent.  *)
C30_DeliveredMeansDelivered ==
    \A i \in job.first..Len(notifications) :
        notifications[i].is_delivered =>
            IF notifications[i].channel = "websocket"
            THEN \E ws \in Sockets :
                    /\ Owner(ws) = notifications[i].user_id
                    /\ job.pushes[ws] > 0
            ELSE <<notifications[i].user_id, "sent">> \in job.results

=============================================================================
